---- MODULE Spec2Model ----
(***************************************************************************)
(* Model of the email-simple worker (src/src/index.ts): the send_email     *)
(* tool handler, its footer composition, the Resend client and the         *)
(* provider's possible answers.                                            *)
(*                                                                         *)
(* JavaScript values are tagged records: Str(s), Undefined, Null, Obj(f).  *)
(* Strings are TLC strings, except displayName, which escapeHtml rewrites  *)
(* character by character and which is therefore a sequence of one-        *)
(* character strings (Join turns it into a string).  A response body is a  *)
(* sequence of lexemes: response.text() concatenates their text and        *)
(* response.json() parses them.                                            *)
(***************************************************************************)
EXTENDS Integers, Sequences, FiniteSets, TLC

VARIABLES
    pc,          \* position of the current invocation
    invocation,  \* number of requests the worker has accepted so far
    context,     \* ToolContext handed to createSendEmailHandler
    userId,      \* closure constant of the handler (index.ts:140)
    displayName, \* closure constant of the handler (index.ts:141)
    input,       \* the arguments of the current tool call
    trackingId,  \* the UUID generated by the current invocation
    requests,    \* HTTP requests issued to the provider by this invocation
    response,    \* the provider's response, once fetch has resolved
    results,     \* values the handler's promise resolved with
    escaped,     \* values the handler's promise rejected with
    analytics    \* analytics records written by this invocation

vars == <<pc, invocation, context, userId, displayName, input, trackingId,
          requests, response, results, escaped, analytics>>

\* Number of tool calls one behaviour of the model follows.
MaxInvocations == 2

----------------------------------------------------------------------------
(* JavaScript values *)

Undefined == [t |-> "undefined"]
Null == [t |-> "null"]
Str(s) == [t |-> "string", v |-> s]
\* A string held as the sequence of its characters.
Chars(cs) == [t |-> "chars", v |-> cs]
Obj(f) == [t |-> "object", v |-> f]

RECURSIVE Join(_)
\* The string made of the characters of cs.
Join(cs) == IF cs = <<>> THEN "" ELSE Head(cs) \o Join(Tail(cs))

\* ToBoolean, as used by `!x`, `x || y`, `x ? a : b` and `x && y`.
Truthy(x) ==
    CASE x.t = "undefined" -> FALSE
      [] x.t = "null" -> FALSE
      [] x.t = "string" -> x.v # ""
      [] x.t = "chars" -> x.v # <<>>
      [] OTHER -> TRUE

\* ToString, as used by template literals and by `+` with a string operand.
ToStr(x) ==
    CASE x.t = "undefined" -> "undefined"
      [] x.t = "null" -> "null"
      [] x.t = "string" -> x.v
      [] x.t = "chars" -> Join(x.v)
      [] OTHER -> "[object Object]"

\* x || y
OrElse(x, y) == IF Truthy(x) THEN x ELSE y

\* An Error instance with the given message.
ErrorOf(name, msg) ==
    [instanceofError |-> TRUE, message |-> msg, string |-> name \o ": " \o msg]

\* A thrown value that is not an Error instance; String(value) is s.
ThrownValue(s) ==
    [instanceofError |-> FALSE, message |-> "", string |-> s]

\* Completion records of a piece of code.
Return(v) == [type |-> "return", value |-> v]
Throw(e) == [type |-> "throw", value |-> e]

\* o.key: a TypeError on undefined and null, undefined for an absent key.
GetProp(o, key) ==
    CASE o.t \in {"undefined", "null"} ->
            Throw(ErrorOf("TypeError",
                "Cannot read properties of " \o o.t
                    \o " (reading '" \o key \o "')"))
      [] o.t = "object" ->
            Return(IF key \in DOMAIN o.v THEN o.v[key] ELSE Undefined)
      [] OTHER -> Return(Undefined)

\* o?.key
GetPropOptional(o, key) ==
    IF o.t \in {"undefined", "null"} THEN Undefined ELSE GetProp(o, key).value

----------------------------------------------------------------------------
(* generateUUID, escapeHtml, buildFooter *)

\* Values crypto.randomUUID() may return.
UUIDs ==
    { "123e4567-e89b-42d3-a456-426614174000",
      "9b2f1c3a-7d4e-4f1a-8c2b-0a1b2c3d4e5f" }

RECURSIVE ReplaceAll(_, _, _)
\* cs.replace(/c/g, r): every character c of cs replaced by the characters r.
ReplaceAll(cs, c, r) ==
    IF cs = <<>> THEN <<>>
    ELSE (IF Head(cs) = c THEN r ELSE <<Head(cs)>>) \o ReplaceAll(Tail(cs), c, r)

escapeHtml(unsafe) ==
    LET a == ReplaceAll(unsafe, "&", <<"&", "a", "m", "p", ";">>)
        b == ReplaceAll(a, "<", <<"&", "l", "t", ";">>)
        c == ReplaceAll(b, ">", <<"&", "g", "t", ";">>)
        d == ReplaceAll(c, "\"", <<"&", "q", "u", "o", "t", ";">>)
    IN ReplaceAll(d, "'", <<"&", "#", "0", "3", "9", ";">>)

\* The rule of the text footer: 31 box-drawing characters (U+2500) in the
\* source, written here with the ASCII hyphen.
FooterRule == "-------------------------------"

\* uid and tid are strings, name is a sequence of characters.
buildFooter(uid, name, tid) ==
    LET reportUrl == "https://odel.app/report-abuse?id=" \o tid
    IN [ text |->
            "\n\n" \o FooterRule \o "\n"
            \o "Sent on behalf of: " \o Join(name) \o " (ID: " \o uid \o ")\n"
            \o "This is an automated email - please do not reply to this address.\n"
            \o "Report abuse: " \o reportUrl \o "\n",
         html |->
            "\n<hr style=\"border: none; border-top: 1px solid #e5e7eb; margin: 24px 0;\">\n"
            \o "<p style=\"font-size: 12px; color: #6b7280; margin: 0;\">\n"
            \o "\t<strong>Sent on behalf of:</strong> " \o Join(escapeHtml(name))
            \o " (ID: " \o uid \o ")<br>\n"
            \o "\t<em>This is an automated email - please do not reply to this address.</em><br>\n"
            \o "\t<a href=\"" \o reportUrl
            \o "\" style=\"color: #3b82f6; text-decoration: none;\">Report abuse</a>\n"
            \o "</p>\n" ]

----------------------------------------------------------------------------
(* The provider's response body: response.text() and response.json() *)

Punct(s) == [lex |-> "punct", s |-> s]
StrLit(s) == [lex |-> "string", s |-> s]
NullLit == [lex |-> "null", s |-> "null"]
Raw(s) == [lex |-> "raw", s |-> s]

LexemeText(l) == IF l.lex = "string" THEN "\"" \o l.s \o "\"" ELSE l.s

RECURSIVE BodyText(_)
\* response.text(): the body as sent.
BodyText(body) ==
    IF body = <<>> THEN "" ELSE LexemeText(Head(body)) \o BodyText(Tail(body))

JsonSyntaxError(body) ==
    Throw(ErrorOf("SyntaxError",
        IF body = <<>> THEN "Unexpected end of JSON input"
        ELSE "Unexpected token in JSON"))

\* A scalar JSON value: a string literal or null.
IsScalar(l) == l.lex \in {"string", "null"}
ScalarValue(l) == IF l.lex = "string" THEN Str(l.s) ELSE Null

RECURSIVE ParseMembers(_, _)
\* The members  "k" : v , "k" : v ...  of an object, added to acc (a later
\* duplicate key wins); <<FALSE, _>> when ls is not a member list.
ParseMembers(ls, acc) ==
    IF Len(ls) < 3 THEN <<FALSE, acc>>
    ELSE IF ~(ls[1].lex = "string" /\ ls[2] = Punct(":") /\ IsScalar(ls[3]))
    THEN <<FALSE, acc>>
    ELSE LET k == ls[1].s
             next == [x \in DOMAIN acc \cup {k} |->
                         IF x = k THEN ScalarValue(ls[3]) ELSE acc[x]]
         IN IF Len(ls) = 3 THEN <<TRUE, next>>
            ELSE IF ls[4] = Punct(",")
            THEN ParseMembers(SubSeq(ls, 5, Len(ls)), next)
            ELSE <<FALSE, acc>>

\* The empty object's field map.
NoFields == [x \in {} |-> Undefined]

\* response.json(): the parsed body, or a SyntaxError.
ParseJson(body) ==
    IF Len(body) = 1 /\ IsScalar(body[1]) THEN Return(ScalarValue(body[1]))
    ELSE IF Len(body) >= 2 /\ body[1] = Punct("{") /\ body[Len(body)] = Punct("}")
    THEN IF Len(body) = 2 THEN Return(Obj(NoFields))
         ELSE LET m == ParseMembers(SubSeq(body, 2, Len(body) - 1), NoFields)
              IN IF m[1] THEN Return(Obj(m[2])) ELSE JsonSyntaxError(body)
    ELSE JsonSyntaxError(body)

----------------------------------------------------------------------------
(* sendViaResend *)

\* The object literal given to JSON.stringify: html is spread in only when
\* it is truthy.
RequestFields(from, to, subject, text, html) ==
    LET keys == {"from", "to", "subject", "text"}
                    \cup (IF Truthy(html) THEN {"html"} ELSE {})
    IN [k \in keys |->
            CASE k = "from" -> from
              [] k = "to" -> to
              [] k = "subject" -> subject
              [] k = "text" -> text
              [] OTHER -> html]

\* JSON.stringify of an object: a key whose value is undefined is left out;
\* the other values here are strings or null.
JsonStringify(fields) ==
    LET kept == {k \in DOMAIN fields : fields[k].t # "undefined"}
    IN [k \in kept |-> fields[k]]

\* The request of the single fetch call.
ResendRequest(apiKey, from, to, subject, text, html) ==
    [ url |-> "https://api.resend.com/emails",
      method |-> "POST",
      headers |-> [ Authorization |-> "Bearer " \o ToStr(apiKey),
                    ContentType |-> "application/json" ],
      body |-> JsonStringify(RequestFields(from, to, subject, text, html)) ]

\* Mutant of IssueFetch: the request is sent again after the first attempt.
IssueFetch_Retry(sent, request) == sent \o <<request, request>>

\* fetch(...) called: the request goes out.
IssueFetch(sent, request) == Append(sent, request)

\* Mutant of ResendApiError: the response body is left out of the message.
ResendApiError_StatusOnly(status, text) ==
    ErrorOf("Error", "Resend API error: " \o ToString(status))

\* The Error thrown on a response that is not ok.
ResendApiError(status, text) ==
    ErrorOf("Error", "Resend API error: " \o ToString(status) \o " - " \o text)

\* response.ok
IsOk(status) == status >= 200 /\ status <= 299

----------------------------------------------------------------------------
(* createSendEmailHandler *)

From == "Odel Assistant <noreply@mail.odel.app>"

\* The closure constants: context?.userId || 'anonymous' and
\* context?.displayName || 'Anonymous User'.
HandlerUserId(ctx) == OrElse(GetPropOptional(ctx, "userId"), Str("anonymous"))

HandlerDisplayName(ctx) ==
    OrElse(GetPropOptional(ctx, "displayName"),
           Chars(<<"A", "n", "o", "n", "y", "m", "o", "u", "s", " ",
                   "U", "s", "e", "r">>))

\* input.<key>
Field(in, key) == GetProp(in, key).value

\* Mutant of MissingRequired: text is not checked.
MissingRequired_NoTextCheck(in) ==
    \/ ~Truthy(Field(in, "to"))
    \/ ~Truthy(Field(in, "subject_suffix"))

\* !input.to || !input.subject_suffix || !input.text
MissingRequired(in) ==
    \/ ~Truthy(Field(in, "to"))
    \/ ~Truthy(Field(in, "subject_suffix"))
    \/ ~Truthy(Field(in, "text"))

ValidationFailure ==
    [ success |-> FALSE,
      error |-> "Missing required fields: to, subject_suffix, and text are required" ]

\* Mutant of FullText: the footer comes first.
FullText_Prepend(text, footer) == Str(footer.text \o ToStr(text))

\* input.text + footer.text
FullText(text, footer) == Str(ToStr(text) \o footer.text)

\* Mutant of FullHtml: the HTML footer is sent whether or not there is an
\* HTML body.
FullHtml_AlwaysFooter(html, footer) ==
    Str((IF Truthy(html) THEN ToStr(html) ELSE "") \o footer.html)

\* input.html ? input.html + footer.html : undefined
FullHtml(html, footer) ==
    IF Truthy(html) THEN Str(ToStr(html) \o footer.html) ELSE Undefined

\* `Odel has sent: ${input.subject_suffix}`
Subject(suffix) == Str("Odel has sent: " \o ToStr(suffix))

\* The handler from its entry to the fetch call: a completion, or the
\* request it is left awaiting.
HandlerStartOutcome(ctx, uid, name, in, tid) ==
    IF MissingRequired(in) THEN Return(ValidationFailure)
    ELSE LET footer == buildFooter(ToStr(uid), name.v, tid)
             env == GetProp(ctx, "env")
             key == GetProp(env.value, "RESEND_API_KEY")
         IN IF env.type = "throw" THEN env
            ELSE IF key.type = "throw" THEN key
            ELSE [ type |-> "await",
                   value |-> ResendRequest(key.value, Str(From),
                                Field(in, "to"),
                                Subject(Field(in, "subject_suffix")),
                                FullText(Field(in, "text"), footer),
                                FullHtml(Field(in, "html"), footer)) ]

\* Mutant of SuccessOutcome: the recipient is taken from the response.
SuccessOutcome_ToFromResponse(parsed, in) ==
    LET id == GetProp(parsed, "id")
    IN IF id.type = "throw" THEN id
       ELSE Return([success |-> TRUE, id |-> id.value,
                    to |-> GetProp(parsed, "to").value])

\* The handler after response.json() resolved with parsed.
SuccessOutcome(parsed, in) ==
    LET id == GetProp(parsed, "id")
    IN IF id.type = "throw" THEN id
       ELSE Return([success |-> TRUE, id |-> id.value, to |-> Field(in, "to")])

\* error instanceof Error ? error.message : String(error)
ErrorMessage(e) == IF e.instanceofError THEN e.message ELSE e.string

\* The catch clause of the handler.
HandlerCatch(e) ==
    Return([success |-> FALSE, error |-> "Failed to send email: " \o ErrorMessage(e)])

\* Mutant of TryCatch: only Error instances are caught.
TryCatch_ErrorsOnly(c) ==
    IF c.type = "throw" /\ c.value.instanceofError THEN HandlerCatch(c.value) ELSE c

\* try { ... } catch: a throw inside the try block becomes a returned failure.
TryCatch(c) == IF c.type = "throw" THEN HandlerCatch(c.value) ELSE c

----------------------------------------------------------------------------
(* The environment: tool calls, contexts and the provider's answers *)

\* An object with the given fields, a field whose value is undefined being
\* an absent key.
ObjectOf(fields) ==
    Obj([k \in {x \in DOMAIN fields : fields[x].t # "undefined"} |-> fields[k]])

ToValues == {Undefined, Str(""), Str("a@example.com"), Str("b@example.org")}
SubjectValues == {Undefined, Str(""), Str("Hi")}
TextValues == {Undefined, Str(""), Str("Hello")}
HtmlValues == {Undefined, Str(""), Str("<p>Hello</p>")}

\* The arguments a tool call may carry.
Inputs ==
    { ObjectOf([to |-> t, subject_suffix |-> s, text |-> x, html |-> h]) :
        t \in ToValues, s \in SubjectValues, x \in TextValues, h \in HtmlValues }

EnvValues ==
    { Undefined,
      ObjectOf([RESEND_API_KEY |-> Undefined]),
      ObjectOf([RESEND_API_KEY |-> Str("re_test_key")]) }

\* The contexts extractToolContext may hand over, the absent one included.
Contexts ==
    {Undefined} \cup
    { ObjectOf([userId |-> u, displayName |-> d, env |-> e]) :
        u \in {Undefined, Str("hashed_user_123")},
        d \in {Undefined, Chars(<<"T", "&", "<", "'">>)},
        e \in EnvValues }

Statuses == {200, 201, 422, 500}

\* The response bodies the provider may send.
Bodies ==
    { <<Punct("{"), StrLit("id"), Punct(":"), StrLit("abc123"), Punct("}")>>,
      <<Punct("{"), StrLit("message"), Punct(":"), StrLit("queued"), Punct("}")>>,
      <<Punct("{"), StrLit("object"), Punct(":"), StrLit("email"), Punct(","),
        StrLit("id"), Punct(":"), StrLit("xyz789"), Punct("}")>>,
      <<Punct("{"), StrLit("id"), Punct(":"), NullLit, Punct("}")>>,
      <<Punct("{"), StrLit("id"), Punct("}")>>,
      <<Punct("{"), Punct("}")>>,
      <<NullLit>>,
      <<Raw("bad request")>>,
      <<>> }

\* What fetch, response.text() or response.json() may reject with when the
\* network fails.
NetworkFailures ==
    { ErrorOf("TypeError", "fetch failed"),
      ThrownValue("connection reset") }

\* No response yet.  Once fetch has resolved the response holds its status,
\* its body and how the body was read: "pending", "text", "json" or "failed".
NoResponse == [settled |-> FALSE]

----------------------------------------------------------------------------
(* The state machine *)

Init ==
    /\ pc = "idle"
    /\ invocation = 0
    /\ context = Undefined
    /\ userId = HandlerUserId(Undefined)
    /\ displayName = HandlerDisplayName(Undefined)
    /\ input = Obj(NoFields)
    /\ trackingId = Undefined
    /\ requests = <<>>
    /\ response = NoResponse
    /\ results = <<>>
    /\ escaped = <<>>
    /\ analytics = <<>>

\* The handler's promise settles with completion c.
Finish(c) ==
    /\ pc' = "done"
    /\ results' = IF c.type = "return" THEN Append(results, c.value) ELSE results
    /\ escaped' = IF c.type = "throw" THEN Append(escaped, c.value) ELSE escaped

\* The worker accepts a POST: it extracts the context, creates the handler
\* with it and registers it as the send_email tool.
Invoke ==
    /\ pc \in {"idle", "done"}
    /\ invocation < MaxInvocations
    /\ \E ctx \in Contexts :
        /\ context' = ctx
        /\ userId' = HandlerUserId(ctx)
        /\ displayName' = HandlerDisplayName(ctx)
    /\ invocation' = invocation + 1
    /\ pc' = "registered"
    /\ input' = Obj(NoFields)
    /\ trackingId' = Undefined
    /\ requests' = <<>>
    /\ response' = NoResponse
    /\ results' = <<>>
    /\ escaped' = <<>>
    /\ analytics' = <<>>

\* The transport calls the handler with the tool call's arguments: the
\* handler runs from its entry to its first await (the fetch call) or to
\* its return.
HandlerStart ==
    /\ pc = "registered"
    /\ \E in \in Inputs, tid \in UUIDs :
        LET c == TryCatch(HandlerStartOutcome(context, userId, displayName, in, tid))
        IN /\ input' = in
           /\ trackingId' = IF MissingRequired(in) THEN trackingId ELSE Str(tid)
           /\ IF c.type = "await"
              THEN /\ requests' = IssueFetch(requests, c.value)
                   /\ pc' = "awaitFetch"
                   /\ UNCHANGED <<results, escaped>>
              ELSE /\ Finish(c)
                   /\ UNCHANGED requests
    /\ UNCHANGED <<invocation, context, userId, displayName, response, analytics>>

\* fetch rejects: the request never got an answer.
FetchRejects ==
    /\ pc = "awaitFetch"
    /\ \E e \in NetworkFailures : Finish(TryCatch(Throw(e)))
    /\ UNCHANGED <<invocation, context, userId, displayName, input, trackingId,
                   requests, response, analytics>>

\* fetch resolves with the provider's response; the handler goes on to read
\* the body, as text when the response is not ok and as JSON when it is.
FetchResolves ==
    /\ pc = "awaitFetch"
    /\ \E st \in Statuses, b \in Bodies :
        /\ response' = [settled |-> TRUE, status |-> st, ok |-> IsOk(st),
                        body |-> b, bodyRead |-> "pending"]
        /\ pc' = IF IsOk(st) THEN "awaitJson" ELSE "awaitText"
    /\ UNCHANGED <<invocation, context, userId, displayName, input, trackingId,
                   requests, results, escaped, analytics>>

\* response.text() resolves: sendViaResend throws the API error, which the
\* handler catches.
TextResolves ==
    /\ pc = "awaitText"
    /\ Finish(TryCatch(Throw(ResendApiError(response.status, BodyText(response.body)))))
    /\ response' = [response EXCEPT !.bodyRead = "text"]
    /\ UNCHANGED <<invocation, context, userId, displayName, input, trackingId,
                   requests, analytics>>

\* response.json() settles: sendViaResend returns the parsed body and the
\* handler builds the success result, or the parse error is caught.
JsonSettles ==
    /\ pc = "awaitJson"
    /\ LET parsed == ParseJson(response.body)
       IN Finish(TryCatch(IF parsed.type = "throw" THEN parsed
                          ELSE SuccessOutcome(parsed.value, input)))
    /\ response' = [response EXCEPT !.bodyRead = "json"]
    /\ UNCHANGED <<invocation, context, userId, displayName, input, trackingId,
                   requests, analytics>>

\* Reading the body fails on the network.
BodyReadFails ==
    /\ pc \in {"awaitText", "awaitJson"}
    /\ \E e \in NetworkFailures : Finish(TryCatch(Throw(e)))
    /\ response' = [response EXCEPT !.bodyRead = "failed"]
    /\ UNCHANGED <<invocation, context, userId, displayName, input, trackingId,
                   requests, analytics>>

Next ==
    \/ Invoke
    \/ HandlerStart
    \/ FetchRejects
    \/ FetchResolves
    \/ TextResolves
    \/ JsonSettles
    \/ BodyReadFails

Spec == Init /\ [][Next]_vars

----------------------------------------------------------------------------
(* Properties *)

\* The handler has been called in the current invocation.
Called == pc \notin {"idle", "registered"}

\* The handler's promise has settled.
Settled == pc = "done"

\* The footer of the current invocation.
CurrentFooter == buildFooter(ToStr(userId), displayName.v, ToStr(trackingId))

\* r has one of the two shapes of a SendResult.
IsSendResult(r) ==
    \/ r.success /\ DOMAIN r = {"success", "id", "to"}
    \/ ~r.success /\ DOMAIN r = {"success", "error"}

\* C1: when to, subject_suffix or text is missing from the arguments, the
\* handler returns a failure result and the invocation issues no request to
\* the provider.
C1_MissingFieldFailsWithoutRequest ==
    (Called /\ \E k \in {"to", "subject_suffix", "text"} : Field(input, k) = Undefined)
        => /\ Settled
           /\ Len(results) = 1
           /\ ~results[1].success
           /\ DOMAIN results[1] = {"success", "error"}
           /\ requests = <<>>

\* C1 witness: a call with text missing, everything else in order, ended in
\* the failure result with no request sent.
C1_Witness ==
    /\ Settled
    /\ Field(input, "text") = Undefined
    /\ Field(input, "to") = Str("a@example.com")
    /\ Field(input, "subject_suffix") = Str("Hi")
    /\ Truthy(GetPropOptional(GetPropOptional(context, "env"), "RESEND_API_KEY"))
    /\ results = <<ValidationFailure>>
    /\ requests = <<>>

\* C2: an invocation issues at most one request to the provider, whatever
\* the provider's answer.
C2_AtMostOneRequest == Len(requests) <= 1

\* C2 witness: the provider's call failed (a response that is not ok, or no
\* response at all) and the invocation ended with its single request.
C2_Witness ==
    /\ Settled
    /\ Len(requests) = 1
    /\ ~results[1].success
    /\ response.settled
    /\ response.status = 500

\* C3: an invocation ends with exactly one SendResult and nothing escapes
\* the handler: a provider error, a network failure, an unparseable body, a
\* missing context or a missing env all end in the failure shape.
C3_ExactlyOneResultNothingEscapes ==
    /\ escaped = <<>>
    /\ ~Settled => results = <<>>
    /\ Settled =>
        /\ Len(results) = 1
        /\ IsSendResult(results[1])
        /\ requests = <<>> => ~results[1].success
        /\ (requests # <<>> /\ ~response.settled) => ~results[1].success
        /\ (response.settled /\ ~response.ok) => ~results[1].success
        /\ (response.settled /\ response.bodyRead = "failed") => ~results[1].success
        /\ (response.settled /\ response.body \in {<<>>, <<Raw("bad request")>>})
                => ~results[1].success

\* C3 witness: fetch rejected with a value that is no Error instance and the
\* handler returned the failure made of its string.
C3_Witness ==
    /\ Settled
    /\ Len(requests) = 1
    /\ ~response.settled
    /\ results = <<[success |-> FALSE, error |-> "Failed to send email: connection reset"]>>

\* C3 second case, reached as well: the context is missing altogether.
C3_WitnessNoContext ==
    /\ Settled
    /\ context = Undefined
    /\ ~MissingRequired(input)
    /\ results = <<[success |-> FALSE,
                    error |-> "Failed to send email: Cannot read properties of undefined (reading 'env')"]>>

\* C4: when the provider answers 2xx with a JSON body that carries an id,
\* the result is the success with that id and the recipient of the input.
C4_SuccessCarriesIdAndRecipient ==
    (/\ Settled
     /\ response.settled
     /\ response.ok
     /\ response.bodyRead = "json"
     /\ ParseJson(response.body).type = "return"
     /\ ParseJson(response.body).value.t = "object"
     /\ "id" \in DOMAIN ParseJson(response.body).value.v)
        => results = <<[success |-> TRUE,
                        id |-> ParseJson(response.body).value.v["id"],
                        to |-> Field(input, "to")]>>

\* C4 witness: 200 with {"id":"abc123"} for a@example.com.
C4_Witness ==
    /\ Settled
    /\ response.settled
    /\ response.status = 200
    /\ response.body = <<Punct("{"), StrLit("id"), Punct(":"), StrLit("abc123"), Punct("}")>>
    /\ Field(input, "to") = Str("a@example.com")
    /\ Field(input, "subject_suffix") = Str("Hi")
    /\ Field(input, "text") = Str("Hello")
    /\ results = <<[success |-> TRUE, id |-> Str("abc123"), to |-> Str("a@example.com")]>>

\* C5: when the provider answers with a status s that is not 2xx and the
\* body b, the result is the failure whose error is
\* "Failed to send email: Resend API error: <s> - <b>".
C5_ProviderErrorMessage ==
    (Settled /\ response.settled /\ ~response.ok /\ response.bodyRead = "text")
        => results =
            <<[success |-> FALSE,
               error |-> "Failed to send email: Resend API error: "
                            \o ToString(response.status) \o " - "
                            \o BodyText(response.body)]>>

\* C5 witness: 422 with the body  bad request.
C5_Witness ==
    /\ Settled
    /\ response.settled
    /\ response.status = 422
    /\ response.body = <<Raw("bad request")>>
    /\ results = <<[success |-> FALSE,
                    error |-> "Failed to send email: Resend API error: 422 - bad request"]>>

\* C6 as stated: the payload of a request holds the key html exactly when
\* the arguments carry an html value, and the value is then a string that is
\* not empty.
C6_HtmlKeyIffSupplied ==
    \A i \in DOMAIN requests :
        /\ ("html" \in DOMAIN requests[i].body) <=> (Field(input, "html") # Undefined)
        /\ "html" \in DOMAIN requests[i].body =>
                /\ requests[i].body["html"].t = "string"
                /\ requests[i].body["html"].v # ""

\* C6 amended: the payload of a request holds the key html exactly when the
\* arguments carry an html value that is not the empty string; the value is
\* then a string that is not empty, never null.
C6_HtmlKeyIffNonEmptyHtml ==
    \A i \in DOMAIN requests :
        /\ ("html" \in DOMAIN requests[i].body) <=> Truthy(Field(input, "html"))
        /\ "html" \in DOMAIN requests[i].body =>
                /\ requests[i].body["html"].t = "string"
                /\ requests[i].body["html"].v # ""

\* C6 witness: a request went out for arguments whose html is the empty
\* string, and its payload has no html key.
C6_Witness ==
    /\ Len(requests) = 1
    /\ Field(input, "html") = Str("")
    /\ DOMAIN requests[1].body = {"from", "to", "subject", "text"}

\* C6 second case, reached as well: html supplied and sent.
C6_WitnessHtmlSent ==
    /\ Len(requests) = 1
    /\ Field(input, "html") = Str("<p>Hello</p>")
    /\ DOMAIN requests[1].body = {"from", "to", "subject", "text", "html"}

\* C7 as stated: the text sent is input.text followed by the text footer;
\* when html was supplied the HTML sent is input.html followed by the HTML
\* footer, and no HTML is sent when html was not supplied.
C7_FooterAppendedWhenSupplied ==
    \A i \in DOMAIN requests :
        /\ requests[i].body["text"] = Str(Field(input, "text").v \o CurrentFooter.text)
        /\ Field(input, "html") # Undefined =>
                /\ "html" \in DOMAIN requests[i].body
                /\ requests[i].body["html"]
                        = Str(Field(input, "html").v \o CurrentFooter.html)
        /\ Field(input, "html") = Undefined => "html" \notin DOMAIN requests[i].body

\* C7 amended: the text sent is input.text followed by the text footer,
\* with or without html; when html was supplied and is not empty the HTML
\* sent is input.html followed by the HTML footer; when html is absent or
\* empty no HTML, and so no HTML footer, is sent.
C7_FooterAppendedWhenNonEmpty ==
    \A i \in DOMAIN requests :
        /\ requests[i].body["text"] = Str(Field(input, "text").v \o CurrentFooter.text)
        /\ Truthy(Field(input, "html")) =>
                /\ "html" \in DOMAIN requests[i].body
                /\ requests[i].body["html"]
                        = Str(Field(input, "html").v \o CurrentFooter.html)
        /\ ~Truthy(Field(input, "html")) => "html" \notin DOMAIN requests[i].body

\* C7 witness: text and html sent for a context without user id and display
\* name, each followed by its footer.
C7_Witness ==
    /\ Len(requests) = 1
    /\ GetPropOptional(context, "userId") = Undefined
    /\ GetPropOptional(context, "displayName") = Undefined
    /\ trackingId = Str("123e4567-e89b-42d3-a456-426614174000")
    /\ Field(input, "text") = Str("Hello")
    /\ Field(input, "html") = Str("<p>Hello</p>")
    /\ requests[1].body["text"] = Str(
        "Hello\n\n" \o FooterRule \o "\n"
        \o "Sent on behalf of: Anonymous User (ID: anonymous)\n"
        \o "This is an automated email - please do not reply to this address.\n"
        \o "Report abuse: https://odel.app/report-abuse?id=123e4567-e89b-42d3-a456-426614174000\n")
    /\ requests[1].body["html"] = Str(
        "<p>Hello</p>\n"
        \o "<hr style=\"border: none; border-top: 1px solid #e5e7eb; margin: 24px 0;\">\n"
        \o "<p style=\"font-size: 12px; color: #6b7280; margin: 0;\">\n"
        \o "\t<strong>Sent on behalf of:</strong> Anonymous User (ID: anonymous)<br>\n"
        \o "\t<em>This is an automated email - please do not reply to this address.</em><br>\n"
        \o "\t<a href=\"https://odel.app/report-abuse?id=123e4567-e89b-42d3-a456-426614174000\""
        \o " style=\"color: #3b82f6; text-decoration: none;\">Report abuse</a>\n"
        \o "</p>\n")

\* C7 second case, reached as well: html is the empty string, the text goes
\* out with its footer and no HTML goes out.
C7_WitnessEmptyHtml ==
    /\ Len(requests) = 1
    /\ Field(input, "html") = Str("")
    /\ requests[1].body["text"] = Str("Hello" \o CurrentFooter.text)
    /\ "html" \notin DOMAIN requests[1].body

\* C8: an invocation that issued a request writes exactly one analytics
\* record, "sent" on success and "failed" on failure, and writes none before
\* the provider's call has settled.
C8_OneAnalyticsRecordAfterSettling ==
    /\ Len(analytics) <= 1
    /\ ~Settled => analytics = <<>>
    /\ (Settled /\ requests # <<>>) =>
            /\ Len(analytics) = 1
            /\ analytics[1].status = IF results[1].success THEN "sent" ELSE "failed"

\* C9: when the provider answers 2xx with a JSON body that has no id, the
\* result is a failure.
C9_MissingIdFails ==
    (/\ Settled
     /\ response.settled
     /\ response.ok
     /\ response.bodyRead = "json"
     /\ ParseJson(response.body).type = "return"
     /\ ParseJson(response.body).value.t = "object"
     /\ "id" \notin DOMAIN ParseJson(response.body).value.v)
        => ~results[1].success

\* C10: a call whose text is the empty string, with to and subject_suffix
\* present and not empty, is not rejected as missing a required field, and
\* with the context in order a request goes out.
C10_EmptyTextProceeds ==
    (/\ Called
     /\ Field(input, "text") = Str("")
     /\ Truthy(Field(input, "to"))
     /\ Truthy(Field(input, "subject_suffix")))
        => /\ results # <<ValidationFailure>>
           /\ GetPropOptional(context, "env") # Undefined => Len(requests) = 1

====
